---- MODULE Spec2Model ----
(***************************************************************************)
(* ExpenseListComponent (expense-list.component.ts): the paginated,        *)
(* date-grouped expense list.  The component is single threaded; a fetch   *)
(* is issued by one handler and its response (success or failure) is       *)
(* handled later by another, so every handler is one atomic action and the *)
(* fetches in flight are part of the state.                                *)
(***************************************************************************)
EXTENDS Integers, Sequences, FiniteSets

VARIABLES
  date,             \* this.date, as a count of months (year * 12 + month - 1)
  expenseGroups,    \* this.expenseGroups: NULL or a sequence of ExpenseGroup
  lastPageReached,  \* this.lastPageReached
  loading,          \* this.loading
  searchCriteria,   \* this.searchCriteria
  categories,       \* this.categories
  inflight,         \* the fetches issued and not yet answered, by slot
  callers,          \* "any", or "serialized": the callers keep the preconditions
  ev,               \* history: the handler that ran last and what it observed
  lastExpenseLast,  \* history: `last` of the latest successful expense page
  run,              \* history: the records served since the last reset
  once,             \* history: the latest first-page response and its result
  held,             \* history: the page indices folded into expenseGroups
  modal,            \* ExpenseModalComponent: categories, expenseForm, submitting
  modalCtrl,        \* the expense modal as an overlay, and the calls of dismiss
  toast,            \* the toast the expense modal displayed last
  modalFetches,     \* the requests of the expense modal not yet answered
  categoryList,     \* CategoryListComponent: its fields
  categoryFetches,  \* the fetches of the category list not yet answered, by slot
  categoryEv        \* history: what the category list handler that ran last observed

listVars == <<date, expenseGroups, lastPageReached, loading, searchCriteria,
              categories, inflight, callers, ev, lastExpenseLast, run, once,
              held>>

modalVars == <<modal, modalCtrl, toast, modalFetches>>

categoryListVars == <<categoryList, categoryFetches, categoryEv>>

otherComponents == <<modalVars, categoryListVars>>

vars == <<listVars, modalVars, categoryListVars>>

----------------------------------------------------------------------------
(* Bounds of the model *)

MaxInFlight == 2      \* fetches in flight at the same time
MaxPage == 2          \* largest page index loadNextExpensePage may reach
MaxPageLen == 2       \* records in one page of a response
MaxRecords == 3       \* records held in expenseGroups
MaxMonthShift == 1    \* months addMonths may move away from the first month
MaxCategories == 1    \* categories held in this.categories

\* expenseGroups = null: a value distinct from every sequence of groups
NULL == <<[date |-> "null", expenses |-> <<>>]>>

\* an empty slot of inflight
NoReq == [kind |-> "none"]

----------------------------------------------------------------------------
(* Data: the records the ExpenseSource can return *)

Milk  == [id |-> 1, name |-> "Milk",  date |-> "2024-01-05"]
Bread == [id |-> 2, name |-> "Bread", date |-> "2024-01-05"]
Eggs  == [id |-> 3, name |-> "Eggs",  date |-> "2024-01-06"]

Expenses == {Milk, Bread, Eggs}

\* position of a name in the collation order used by String.localeCompare
NameRank(name) ==
  CASE name = "Bread" -> 1
    [] name = "Eggs"  -> 2
    [] name = "Milk"  -> 3

\* a.name.localeCompare(b.name): negative, zero or positive
localeCompare(a, b) == NameRank(a) - NameRank(b)

\* the pages a response can carry: no record twice, at most MaxPageLen records
RECURSIVE SeqsUpTo(_)
SeqsUpTo(n) ==
  IF n = 0 THEN {<<>>}
  ELSE LET shorter == SeqsUpTo(n - 1)
       IN  shorter \cup {Append(s, e) : s \in {t \in shorter : Len(t) = n - 1},
                                       e \in Expenses}

Range(s) == {s[i] : i \in DOMAIN s}

PageContents ==
  {s \in SeqsUpTo(MaxPageLen) : Cardinality(Range(s)) = Len(s)}

CategoryContents == {<<>>, <<"c1">>}

initialSort == "date,desc"
sortOptions == {"date,desc", "name,asc"}

\* String.prototype.startsWith('date') on the sort options
startsWithDate(sort) == sort \in {"date,desc", "date,asc"}

BaseMonth == 24321    \* 2026-10

\* formatPeriod(date): yyyyMM of a month count
formatPeriod(d) == (d \div 12) * 100 + (d % 12) + 1

----------------------------------------------------------------------------
(* sortExpenses: Array.prototype.sort with the name comparator (stable) *)

RECURSIVE InsertSorted(_, _)
InsertSorted(sorted, e) ==
  IF sorted = <<>> THEN <<e>>
  ELSE IF localeCompare(e.name, sorted[Len(sorted)].name) >= 0
       THEN Append(sorted, e)
       ELSE Append(InsertSorted(SubSeq(sorted, 1, Len(sorted) - 1), e),
                   sorted[Len(sorted)])

RECURSIVE SortFrom(_, _)
SortFrom(acc, rest) ==
  IF rest = <<>> THEN acc
  ELSE SortFrom(InsertSorted(acc, Head(rest)), Tail(rest))

\* faulty variant: the array is returned in the order it came in
sortExpensesKeepsOrder(expenses) == expenses

sortExpenses(expenses) == SortFrom(<<>>, expenses)

----------------------------------------------------------------------------
(* groupBy + toArray: one array per key, in the order the keys first appear *)

\* faulty variant: the grouping key is the date whatever the sort
GroupKeyAlwaysDate(expense, groupByDate) == expense.date

GroupKey(expense, groupByDate) ==
  IF groupByDate THEN expense.date ELSE expense.id

RECURSIVE KeysInOrder(_, _, _)
KeysInOrder(content, groupByDate, seen) ==
  IF content = <<>> THEN seen
  ELSE LET k == GroupKey(Head(content), groupByDate)
       IN  KeysInOrder(Tail(content), groupByDate,
                       IF \E i \in DOMAIN seen : seen[i] = k
                       THEN seen ELSE Append(seen, k))

groupBy(content, groupByDate) ==
  LET keys == KeysInOrder(content, groupByDate, <<>>)
  IN  [i \in DOMAIN keys |->
         SelectSeq(content, LAMBDA e : GroupKey(e, groupByDate) = keys[i])]

----------------------------------------------------------------------------
(* subscribe.next: fold one array of expenses into the groups *)

FindSameDate(groups, d) ==
  IF \E i \in DOMAIN groups : groups[i].date = d
  THEN CHOOSE i \in DOMAIN groups :
         /\ groups[i].date = d
         /\ \A j \in DOMAIN groups : groups[j].date = d => i <= j
  ELSE 0

\* faulty variant: every array becomes a new group, also when its date is already there
FoldGroupAlwaysPush(groups, expenses, groupByDate) ==
  Append(groups, [date |-> expenses[1].date, expenses |-> sortExpenses(expenses)])

FoldGroup(groups, expenses, groupByDate) ==
  LET expenseGroup == [date |-> expenses[1].date,
                       expenses |-> sortExpenses(expenses)]
      same == FindSameDate(groups, expenseGroup.date)
  IN  IF same = 0 \/ ~groupByDate
      THEN Append(groups, expenseGroup)
      ELSE [groups EXCEPT ![same].expenses =
              sortExpenses(groups[same].expenses \o expenseGroup.expenses)]

RECURSIVE FoldAll(_, _, _)
FoldAll(groups, arrays, groupByDate) ==
  IF arrays = <<>> THEN groups
  ELSE FoldAll(FoldGroup(groups, Head(arrays), groupByDate),
               Tail(arrays), groupByDate)

\* faulty variant: the groups of the previous search are kept on a first page
StartGroupsNeverDiscards(groups, page) ==
  IF groups = NULL THEN <<>> ELSE groups

\* mergeMap's project: the groups the page is folded into
StartGroups(groups, page) ==
  IF page = 0 \/ groups = NULL THEN <<>> ELSE groups

FoldPage(groups, page, content, groupByDate) ==
  FoldAll(StartGroups(groups, page), groupBy(content, groupByDate), groupByDate)

RECURSIVE SumLen(_)
SumLen(groups) ==
  IF groups = <<>> THEN 0
  ELSE Len(Head(groups).expenses) + SumLen(Tail(groups))

----------------------------------------------------------------------------
(* The fetches in flight *)

Slots == 1..MaxInFlight

Free(fl) == {i \in Slots : fl[i].kind = "none"}

FirstFree(fl) == CHOOSE i \in Free(fl) : \A j \in Free(fl) : i <= j

Issue(fl, req) == [fl EXCEPT ![FirstFree(fl)] = req]

ExpenseInFlight(fl) == \E i \in Slots : fl[i].kind = "expenses"

NoneInFlight(fl) == \A i \in Slots : fl[i].kind = "none"

\* the callers keep the preconditions of the spec
Serialized == callers \in {"serialized", "paged", "paging"}

\* the histories `before`, lastExpenseLast and run are kept in the behaviours
\* with serialized callers, where the claims that read them are stated
Kept == callers = "serialized"

\* the histories of overlapping loads (the page index a fetch carries, whether
\* a first-page load was issued after it, the latest first-page response) are
\* kept in the behaviours where the claims about overlapping loads are stated
Traced == callers = "overlapping"

\* the source is paged: it serves each record on one page of a result set
Paged == callers \in {"paged", "overlapping"}

\* the history `held` is kept in the behaviours where the claims about the
\* pages held are stated
HeldKept == callers \in {"paged", "paging"}

NoBefore == [groups |-> NULL, last |-> FALSE]

\* getExpenses(this.searchCriteria) as issued by loadExpenses(next); groupByDate
\* is the constant of line 74.  History: `before` is expenseGroups and
\* lastPageReached at the moment loadExpenses was called, `page` the page index
\* the fetch carries, `state` "current" until a first-page load is issued
\* after this one ("superseded") and its page has arrived ("overtaken")
ExpenseRequest(criteria, groups, lastFlag) ==
  [kind |-> "expenses",
   groupByDate |-> startsWithDate(criteria.sort),
   before |-> IF Kept THEN [groups |-> groups, last |-> lastFlag] ELSE NoBefore,
   page |-> IF Traced \/ Paged \/ HeldKept THEN criteria.page ELSE 0,
   state |-> "current"]

\* getCategories(this.searchCriteria) as issued by loadCategories()
CategoryRequest(criteria) ==
  [kind |-> "categories", groupByDate |-> FALSE, before |-> NoBefore,
   page |-> 0, state |-> "current"]

\* history: the expense fetches in flight when a load of page index 0 is issued
Superseded(fl, criteria) ==
  IF Traced /\ criteria.page = 0
  THEN [i \in Slots |-> IF fl[i].kind = "expenses" /\ fl[i].state = "current"
                        THEN [fl[i] EXCEPT !.state = "superseded"]
                        ELSE fl[i]]
  ELSE fl

\* history: the superseded fetches still in flight when the first page of a
\* later load arrives
Overtaken(fl, req, page) ==
  IF Traced /\ req.state = "current" /\ req.page = 0 /\ page = 0
  THEN [i \in Slots |-> IF fl[i].kind = "expenses" /\ fl[i].state = "superseded"
                        THEN [fl[i] EXCEPT !.state = "overtaken"]
                        ELSE fl[i]]
  ELSE fl

\* the callers' side of the contract (spec 4.1 and 5): a load is requested
\* only when no fetch is in flight
MayRequest == Serialized => NoneInFlight(inflight)

\* ... and the next page only while lastPageReached is false
MayAdvance == Serialized => ~lastPageReached

----------------------------------------------------------------------------
(* History *)

Ev(op) ==
  [op |-> op, nextCalls |-> 0, loadingAtNext |-> FALSE, foldedAtNext |-> FALSE,
   sameAsBefore |-> TRUE, groupByDate |-> FALSE,
   state |-> "current", added |-> 0, twice |-> FALSE]

NoneServed == [e \in Expenses |-> 0]

InvalidRun == [valid |-> FALSE, pages |-> 0, served |-> NoneServed]

FreshRun == [valid |-> TRUE, pages |-> 0, served |-> NoneServed]

CountIn(s, e) == Cardinality({i \in DOMAIN s : s[i] = e})

RECURSIVE CountInGroups(_, _)
CountInGroups(groups, e) ==
  IF groups = <<>> THEN 0
  ELSE CountIn(Head(groups).expenses, e) + CountInGroups(Tail(groups), e)

\* a reset (page index set to 0) starts a run
RunAfterReset == IF Kept THEN FreshRun ELSE InvalidRun

\* a page of the run has arrived
RunAfterPage(content) ==
  IF run.valid
  THEN [valid |-> TRUE, pages |-> run.pages + 1,
        served |-> [e \in Expenses |-> run.served[e] + CountIn(content, e)]]
  ELSE InvalidRun

\* `once`: the latest response of a load of page index 0 and the state it left
NoOnce ==
  [set |-> FALSE, content |-> <<>>, last |-> FALSE, groupByDate |-> FALSE,
   groups |-> NULL]

\* the response being handled repeats the one kept in `once`
Twice(req, content, last) ==
  /\ Traced
  /\ once.set
  /\ req.page = 0
  /\ searchCriteria.page = 0
  /\ content = once.content
  /\ last = once.last
  /\ req.groupByDate = once.groupByDate

OnceAfterPage(req, content, last, folded) ==
  IF Traced /\ req.page = 0 /\ searchCriteria.page = 0
  THEN IF Twice(req, content, last)
       THEN once
       ELSE [set |-> TRUE, content |-> content, last |-> last,
             groupByDate |-> req.groupByDate, groups |-> folded]
  ELSE NoOnce

\* a paged source: the records in the order of the sort, one on each page
SourceOrder(groupByDate) ==
  IF groupByDate THEN <<Eggs, Milk, Bread>> ELSE <<Bread, Eggs, Milk>>

SourcePage(groupByDate, p) ==
  IF p + 1 \in DOMAIN SourceOrder(groupByDate)
  THEN <<SourceOrder(groupByDate)[p + 1]>>
  ELSE <<>>

SourceLast(groupByDate, p) == p + 1 >= Len(SourceOrder(groupByDate))

\* the response is the one the paged source gives to the request
FromSource(req, content, last) ==
  Paged => /\ content = SourcePage(req.groupByDate, req.page)
           /\ last = SourceLast(req.groupByDate, req.page)

\* `held`: the page indices whose responses are folded into expenseGroups
HeldAfterPage(req) ==
  IF HeldKept
  THEN IF searchCriteria.page = 0 \/ expenseGroups = NULL
       THEN {req.page}
       ELSE held \cup {req.page}
  ELSE held

----------------------------------------------------------------------------
(* ExpenseModalComponent (expense-modal.component.ts)                      *)

MaxUpserts == 2        \* upsert requests in flight at the same time
MaxModalFetches == 2   \* getAllCategories requests in flight at the same time
MaxOverlays == 1       \* category modals, and confirmation sheets, open at a time

Food == [id |-> 1, name |-> "Food"]

\* no category: expense.category undefined
NoCategory == [id |-> 0, name |-> ""]

\* formatISO(new Date()): the present moment, written in the zone of the
\* runtime; and the date of a stored expense, which is a date without a time
Today == "2026-10-29T12:00:00Z"
Stored == "2024-01-05"

\* formatISO(parseISO(date), { representation: 'date' }): the calendar date,
\* in the zone of the runtime, of the moment parsed.  A date without a time is
\* parsed as midnight in that zone and comes back as it is; of a moment
\* written in that zone the time and the offset are dropped.
formatISODate(d) ==
  CASE d = Today  -> "2026-10-29"
    [] d = Stored -> "2024-01-05"

\* the expense the modal is opened with: {} for a new one (id 0: undefined)
NewExpense ==
  [id |-> 0, amount |-> "", category |-> NoCategory, date |-> Today, name |-> ""]

StoredExpense ==
  [id |-> 1, amount |-> "5", category |-> Food, date |-> Stored, name |-> "Milk"]

\* what the user can type into the form
FormNames == {"", "Milk"}
FormAmounts == {"", "5"}
FormCategoryIds == {0, Food.id}

\* the state after construction (lines 25-26, 36-46)
InitModal ==
  /\ modal = [categories |-> <<>>,
              expenseForm |-> [id |-> 0, categoryId |-> 0, name |-> "",
                               amount |-> "", date |-> Today],
              submitting |-> FALSE]
  /\ modalCtrl = [state |-> "created", dismiss |-> <<>>]
  /\ toast = "none"
  /\ modalFetches = [allCategories |-> 0, upserts |-> <<>>,
                     categoryModals |-> 0, confirmations |-> 0]

\* the modal is on the screen: its controls can be used
Presented == modalCtrl.state = "presented"

\* this.modalCtrl.dismiss(null, role): the call is made whether or not the
\* modal has been dismissed before; `dismiss` keeps the roles of the calls
Dismiss(role) ==
  [state |-> "dismissed", dismiss |-> Append(modalCtrl.dismiss, role)]

\* loadAllCategories(), line 50: the request is issued
loadAllCategories(fetches) ==
  [fetches EXCEPT !.allCategories = @ + 1]

\* ngOnInit(), with the expense the modal was given
ngOnInit(expense) ==
  /\ modalCtrl.state = "created"
  /\ modal' = [modal EXCEPT
       !.categories = IF expense.category # NoCategory
                      THEN Append(@, expense.category) ELSE @,
       !.expenseForm = IF expense.id # 0
                       THEN [id |-> expense.id, amount |-> expense.amount,
                             categoryId |-> expense.category.id,
                             date |-> expense.date, name |-> expense.name]
                       ELSE @]
  /\ modalCtrl' = [modalCtrl EXCEPT !.state = "presented"]
  /\ modalFetches' = loadAllCategories(modalFetches)
  /\ UNCHANGED <<toast, listVars, categoryListVars>>

\* the user edits the form
editForm(name, amount, categoryId) ==
  /\ Presented
  /\ modal' = [modal EXCEPT !.expenseForm.name = name,
                            !.expenseForm.amount = amount,
                            !.expenseForm.categoryId = categoryId]
  /\ modal' # modal
  /\ UNCHANGED <<modalCtrl, toast, modalFetches, listVars, categoryListVars>>

\* cancel()
cancel ==
  /\ Presented
  /\ modalCtrl' = Dismiss("cancel")
  /\ UNCHANGED <<modal, toast, modalFetches, listVars, categoryListVars>>

\* save(), lines 63-68: submitting is raised and the upsert is issued
save ==
  /\ Presented
  /\ Len(modalFetches.upserts) < MaxUpserts
  /\ modal' = [modal EXCEPT !.submitting = TRUE]
  /\ modalFetches' = [modalFetches EXCEPT !.upserts =
       Append(@, [modal.expenseForm EXCEPT !.date = formatISODate(@)])]
  /\ UNCHANGED <<modalCtrl, toast, listVars, categoryListVars>>

\* upsertExpense succeeds: subscribe.next, lines 70-73
UpsertSucceeded(i) ==
  /\ i \in DOMAIN modalFetches.upserts
  /\ toast' = "Expense saved"
  /\ modalCtrl' = Dismiss("refresh")
  /\ modalFetches' = [modalFetches EXCEPT !.upserts =
       SubSeq(@, 1, i - 1) \o SubSeq(@, i + 1, Len(@))]
  /\ UNCHANGED <<modal, listVars, categoryListVars>>

\* upsertExpense fails: subscribe.error, line 74
UpsertFailed(i) ==
  /\ i \in DOMAIN modalFetches.upserts
  /\ toast' = "Could not save Expense"
  /\ modalFetches' = [modalFetches EXCEPT !.upserts =
       SubSeq(@, 1, i - 1) \o SubSeq(@, i + 1, Len(@))]
  /\ UNCHANGED <<modal, modalCtrl, listVars, categoryListVars>>

\* delete(), line 80: the confirmation sheet is shown
delete ==
  /\ Presented
  /\ modalFetches.confirmations < MaxOverlays
  /\ modalFetches' = [modalFetches EXCEPT !.confirmations = @ + 1]
  /\ UNCHANGED <<modal, modalCtrl, toast, listVars, categoryListVars>>

\* the confirmation sheet is answered with `action`: filter and subscriber,
\* lines 81-82; nothing is tested but the action
DeletionConfirmationAnswered(action) ==
  /\ modalFetches.confirmations > 0
  /\ modalFetches' = [modalFetches EXCEPT !.confirmations = @ - 1]
  /\ modalCtrl' = IF action = "delete" THEN Dismiss("delete") ELSE modalCtrl
  /\ UNCHANGED <<modal, toast, listVars, categoryListVars>>

\* showCategoryModal(), lines 86-87: the category modal is created and
\* presented
showCategoryModal ==
  /\ Presented
  /\ modalFetches.categoryModals < MaxOverlays
  /\ modalFetches' = [modalFetches EXCEPT !.categoryModals = @ + 1]
  /\ UNCHANGED <<modal, modalCtrl, toast, listVars, categoryListVars>>

\* the category modal is dismissed with `role`: showCategoryModal() resumes,
\* lines 88-89; nothing is tested but the role
CategoryModalDismissed(role) ==
  /\ modalFetches.categoryModals > 0
  /\ role = "refresh" => modalFetches.allCategories < MaxModalFetches
  /\ LET resumed == [modalFetches EXCEPT !.categoryModals = @ - 1]
     IN  modalFetches' = IF role = "refresh"
                         THEN loadAllCategories(resumed) ELSE resumed
  /\ UNCHANGED <<modal, modalCtrl, toast, listVars, categoryListVars>>

\* getAllCategories succeeds: subscribe.next, line 51
AllCategoriesLoaded(all) ==
  /\ modalFetches.allCategories > 0
  /\ modal' = [modal EXCEPT !.categories = all]
  /\ modalFetches' = [modalFetches EXCEPT !.allCategories = @ - 1]
  /\ UNCHANGED <<modalCtrl, toast, listVars, categoryListVars>>

\* getAllCategories fails: subscribe.error, line 52
AllCategoriesFailed ==
  /\ modalFetches.allCategories > 0
  /\ toast' = "Could not load categories"
  /\ modalFetches' = [modalFetches EXCEPT !.allCategories = @ - 1]
  /\ UNCHANGED <<modal, modalCtrl, listVars, categoryListVars>>

NextModal ==
  \/ \E expense \in {NewExpense, StoredExpense} : ngOnInit(expense)
  \/ \E name \in FormNames, amount \in FormAmounts, categoryId \in FormCategoryIds :
       editForm(name, amount, categoryId)
  \/ cancel
  \/ save
  \/ \E i \in 1..MaxUpserts : UpsertSucceeded(i)
  \/ \E i \in 1..MaxUpserts : UpsertFailed(i)
  \/ delete
  \/ \E action \in {"delete", "cancel"} : DeletionConfirmationAnswered(action)
  \/ showCategoryModal
  \/ \E role \in {"refresh", "cancel"} : CategoryModalDismissed(role)
  \/ \E all \in {<<>>, <<Food>>} : AllCategoriesLoaded(all)
  \/ AllCategoriesFailed

----------------------------------------------------------------------------
(* CategoryListComponent (category-list.component.ts)                      *)

MaxCategoryPage == 2      \* largest page index loadNextCategoryPage may reach
MaxCategoriesHeld == 3    \* categories held in categoryList.categories

Rent == [id |-> 2, name |-> "Rent"]

CategoryRecords == {Food, Rent}

CategoryPages ==
  {<<>>} \cup {<<c>> : c \in CategoryRecords}

CategoryEv(op) ==
  [op |-> op, nextCalls |-> 0, loadingAtNext |-> FALSE, appendedAtNext |-> FALSE]

\* the state after construction (lines 14-18)
InitCategoryList ==
  /\ categoryList = [categories |-> NULL,
                     lastPageReached |-> FALSE,
                     loading |-> FALSE,
                     searchCriteria |-> [page |-> 0, sort |-> "name,asc"]]
  /\ categoryFetches = [i \in Slots |-> NoReq]
  /\ categoryEv = CategoryEv("init")

\* loadCategories(next), lines 28-31: loading is raised and the fetch issued;
\* `next` names the callback the caller passed
loadCategories(page, next) ==
  /\ Free(categoryFetches) # {}
  /\ categoryList' = [categoryList EXCEPT !.searchCriteria.page = page,
                                          !.loading = TRUE]
  /\ categoryFetches' = Issue(categoryFetches, [kind |-> "categories", next |-> next])

\* ionViewDidEnter() of the category list
categoryListDidEnter ==
  /\ loadCategories(categoryList.searchCriteria.page, "default")
  /\ categoryEv' = CategoryEv("ionViewDidEnter")
  /\ UNCHANGED <<listVars, modalVars>>

\* loadNextCategoryPage($event)
loadNextCategoryPage ==
  /\ categoryList.searchCriteria.page < MaxCategoryPage
  /\ loadCategories(categoryList.searchCriteria.page + 1, "infiniteScroll")
  /\ categoryEv' = CategoryEv("loadNextCategoryPage")
  /\ UNCHANGED <<listVars, modalVars>>

\* reloadCategories($event?)
reloadCategories(event) ==
  /\ loadCategories(0, IF event THEN "refresher" ELSE "default")
  /\ categoryEv' = CategoryEv("reloadCategories")
  /\ UNCHANGED <<listVars, modalVars>>

\* openModal(category?) of the category list, dismissed with `role`
categoryListOpenModal(role) ==
  /\ IF role = "refresh"
     THEN /\ loadCategories(0, "default")
          /\ categoryEv' = CategoryEv("openModal")
     ELSE UNCHANGED categoryListVars
  /\ UNCHANGED <<listVars, modalVars>>

\* the categories once the subscriber has taken the page (lines 40-42)
TakePage(list, content, last) ==
  [list EXCEPT
     !.categories = (IF list.searchCriteria.page = 0 \/ list.categories = NULL
                     THEN <<>> ELSE @) \o content,
     !.lastPageReached = last]

\* faulty variant: the callback runs in the subscriber, before the page is
\* taken and before finalize
CategoriesLoadedNextFirst(i, content, last) ==
  /\ categoryFetches[i].kind = "categories"
  /\ LET atNext == categoryList
         taken == TakePage(categoryList, content, last)
         final == [taken EXCEPT !.loading = FALSE]
     IN  /\ Len(final.categories) <= MaxCategoriesHeld
         /\ categoryList' = final
         /\ categoryEv' = [CategoryEv("categoriesLoaded") EXCEPT
                             !.nextCalls = 1,
                             !.loadingAtNext = atNext.loading,
                             !.appendedAtNext = (atNext.categories = final.categories)]
  /\ categoryFetches' = [categoryFetches EXCEPT ![i] = NoReq]
  /\ UNCHANGED <<listVars, modalVars>>

\* getCategories emits a page: subscribe.next (lines 39-43), then finalize
\* (lines 33-36): loading is lowered and next() called; categoryEv keeps what
\* the callback finds
CategoriesLoaded(i, content, last) ==
  /\ categoryFetches[i].kind = "categories"
  /\ LET taken == TakePage(categoryList, content, last)
         final == [taken EXCEPT !.loading = FALSE]
         atNext == final
     IN  /\ Len(final.categories) <= MaxCategoriesHeld
         /\ categoryList' = final
         /\ categoryEv' = [CategoryEv("categoriesLoaded") EXCEPT
                             !.nextCalls = 1,
                             !.loadingAtNext = atNext.loading,
                             !.appendedAtNext = (atNext.categories = final.categories)]
  /\ categoryFetches' = [categoryFetches EXCEPT ![i] = NoReq]
  /\ UNCHANGED <<listVars, modalVars>>

\* getCategories fails: subscribe.error (line 44), then finalize
CategoriesFailed(i) ==
  /\ categoryFetches[i].kind = "categories"
  /\ LET final == [categoryList EXCEPT !.loading = FALSE]
         atNext == final
     IN  /\ categoryList' = final
         /\ categoryEv' = [CategoryEv("categoriesFailed") EXCEPT
                             !.nextCalls = 1,
                             !.loadingAtNext = atNext.loading]
  /\ categoryFetches' = [categoryFetches EXCEPT ![i] = NoReq]
  /\ UNCHANGED <<listVars, modalVars>>

NextCategoryList ==
  \/ categoryListDidEnter
  \/ loadNextCategoryPage
  \/ \E event \in BOOLEAN : reloadCategories(event)
  \/ \E role \in {"refresh", "cancel"} : categoryListOpenModal(role)
  \/ \E i \in Slots, content \in CategoryPages, last \in BOOLEAN :
       CategoriesLoaded(i, content, last)
  \/ \E i \in Slots : CategoriesFailed(i)

----------------------------------------------------------------------------
(* State machine of ExpenseListComponent *)

InitWith(c) ==
  /\ callers = c
  /\ date = BaseMonth
  /\ expenseGroups = NULL
  /\ lastPageReached = FALSE
  /\ loading = FALSE
  /\ searchCriteria = [page |-> 0, sort |-> initialSort, yearMonth |-> 0]
  /\ categories = <<>>
  /\ inflight = [i \in Slots |-> NoReq]
  /\ ev = Ev("init")
  /\ lastExpenseLast = FALSE
  /\ run = InvalidRun
  /\ once = NoOnce
  /\ held = {}
  /\ InitModal
  /\ InitCategoryList

Init == InitWith("any")

\* loadExpenses(next), lines 70-76: normalise the criteria, raise loading and
\* issue the fetch; `criteria`, `d` and `groups` are the values the caller left
loadExpenses(criteria, d, groups) ==
  LET normal == [criteria EXCEPT !.yearMonth = formatPeriod(d)]
  IN  /\ Free(inflight) # {}
      /\ searchCriteria' = normal
      /\ loading' = TRUE
      /\ inflight' = Issue(Superseded(inflight, normal),
                           ExpenseRequest(normal, groups, lastPageReached))

\* ionViewDidEnter(): loadExpenses(); loadCategories()
ionViewDidEnter ==
  /\ MayRequest
  /\ Cardinality(Free(inflight)) >= 2
  /\ LET normal == [searchCriteria EXCEPT !.yearMonth = formatPeriod(date)]
         first == Issue(Superseded(inflight, normal),
                        ExpenseRequest(normal, expenseGroups, lastPageReached))
     IN  /\ searchCriteria' = normal
         /\ loading' = TRUE
         /\ inflight' = Issue(first, CategoryRequest(normal))
  /\ ev' = Ev("ionViewDidEnter")
  /\ run' = InvalidRun
  /\ once' = NoOnce
  /\ UNCHANGED <<callers, date, expenseGroups, lastPageReached, categories,
                 lastExpenseLast, held, otherComponents>>

\* faulty variant: the page index is left where it was
reloadExpensesKeepsPage ==
  /\ MayRequest
  /\ loadExpenses(searchCriteria, date, expenseGroups)
  /\ ev' = Ev("reloadExpenses")
  /\ run' = RunAfterReset
  /\ UNCHANGED <<callers, date, expenseGroups, lastPageReached, categories,
                 lastExpenseLast, once, held, otherComponents>>

\* reloadExpenses($event?)
reloadExpenses ==
  /\ MayRequest
  /\ loadExpenses([searchCriteria EXCEPT !.page = 0], date, expenseGroups)
  /\ ev' = Ev("reloadExpenses")
  /\ run' = RunAfterReset
  /\ UNCHANGED <<callers, date, expenseGroups, lastPageReached, categories,
                 lastExpenseLast, once, held, otherComponents>>

\* faulty variant: the method returns at once when the last page has been reached
loadNextExpensePageGuarded ==
  /\ MayRequest
  /\ MayAdvance
  /\ searchCriteria.page < MaxPage
  /\ IF lastPageReached
     THEN UNCHANGED <<searchCriteria, loading, inflight>>
     ELSE loadExpenses([searchCriteria EXCEPT !.page = @ + 1], date, expenseGroups)
  /\ ev' = Ev("loadNextExpensePage")
  /\ once' = NoOnce
  /\ UNCHANGED <<callers, date, expenseGroups, lastPageReached, categories,
                 lastExpenseLast, run, held, otherComponents>>

\* loadNextExpensePage($event)
loadNextExpensePage ==
  /\ MayRequest
  /\ MayAdvance
  /\ searchCriteria.page < MaxPage
  /\ loadExpenses([searchCriteria EXCEPT !.page = @ + 1], date, expenseGroups)
  /\ ev' = Ev("loadNextExpensePage")
  /\ once' = NoOnce
  /\ UNCHANGED <<callers, date, expenseGroups, lastPageReached, categories,
                 lastExpenseLast, run, held, otherComponents>>

\* faulty variant: the subscriber merges the form value and keeps the page index
searchFormChangeKeepsPage(value) ==
  /\ MayRequest
  /\ loadExpenses([searchCriteria EXCEPT !.sort = value.sort], date, expenseGroups)
  /\ ev' = Ev("searchFormChange")
  /\ run' = RunAfterReset
  /\ once' = NoOnce
  /\ UNCHANGED <<callers, date, expenseGroups, lastPageReached, categories,
                 lastExpenseLast, held, otherComponents>>

\* the subscriber of searchForm.valueChanges, lines 56-59 (after the debounce);
\* name and categoryIds are carried like sort and are left out of the model
searchFormChange(value) ==
  /\ MayRequest
  /\ loadExpenses([searchCriteria EXCEPT !.sort = value.sort, !.page = 0],
                  date, expenseGroups)
  /\ ev' = Ev("searchFormChange")
  /\ run' = RunAfterReset
  /\ once' = NoOnce
  /\ UNCHANGED <<callers, date, expenseGroups, lastPageReached, categories,
                 lastExpenseLast, held, otherComponents>>

\* addMonths(number)
addMonths(number) ==
  /\ MayRequest
  /\ date + number \in BaseMonth..(BaseMonth + MaxMonthShift)
  /\ date' = date + number
  /\ expenseGroups' = NULL
  /\ loadExpenses([searchCriteria EXCEPT !.page = 0], date + number, NULL)
  /\ ev' = Ev("addMonths")
  /\ run' = RunAfterReset
  /\ once' = NoOnce
  /\ held' = {}
  /\ UNCHANGED <<callers, lastPageReached, categories, lastExpenseLast,
                 otherComponents>>

\* openModal(expense?), once the modal has been dismissed with `role`
openModal(role) ==
  /\ IF role = "refresh"
     THEN /\ MayRequest
          /\ loadExpenses(searchCriteria, date, expenseGroups)
          /\ run' = InvalidRun
          /\ ev' = Ev("openModal")
          /\ once' = NoOnce
     ELSE UNCHANGED <<searchCriteria, loading, inflight, run, ev, once>>
  /\ UNCHANGED <<callers, date, expenseGroups, lastPageReached, categories,
                 lastExpenseLast, held, otherComponents>>

\* faulty variant: the response of a fetch is dropped when a load of page
\* index 0 has been issued after it
ExpensePageLoadedUnlessSuperseded(i, content, last) ==
  /\ inflight[i].kind = "expenses"
  /\ FromSource(inflight[i], content, last)
  /\ LET req == inflight[i]
         folded == IF req.state = "current"
                   THEN FoldPage(expenseGroups, searchCriteria.page, content,
                                 req.groupByDate)
                   ELSE expenseGroups
     IN  /\ SumLen(folded) <= MaxRecords
         /\ lastPageReached' = last
         /\ expenseGroups' = folded
         /\ loading' = FALSE
         /\ ev' = [Ev("expensePageLoaded") EXCEPT
                     !.nextCalls = 1,
                     !.loadingAtNext = loading,
                     !.foldedAtNext = (expenseGroups = folded),
                     !.groupByDate = req.groupByDate,
                     !.state = req.state,
                     !.added = IF Traced THEN Len(content) ELSE 0,
                     !.twice = Twice(req, content, last)]
         /\ once' = OnceAfterPage(req, content, last, folded)
         /\ held' = HeldAfterPage(req)
         /\ inflight' = [Overtaken(inflight, req, searchCriteria.page)
                           EXCEPT ![i] = NoReq]
  /\ run' = RunAfterPage(content)
  /\ lastExpenseLast' = IF Kept THEN last ELSE lastExpenseLast
  /\ UNCHANGED <<callers, date, searchCriteria, categories, otherComponents>>

\* getExpenses emits expensePage = {content, last}: mergeMap's project
\* (lines 79-87), subscribe.next for every array (lines 90-102), then finalize
\* (line 78).  next() runs in the project, before the page is folded and
\* before finalize: ev keeps what it finds.
ExpensePageLoaded(i, content, last) ==
  /\ inflight[i].kind = "expenses"
  /\ FromSource(inflight[i], content, last)
  /\ LET req == inflight[i]
         folded == FoldPage(expenseGroups, searchCriteria.page, content, req.groupByDate)
     IN  /\ SumLen(folded) <= MaxRecords
         /\ lastPageReached' = last
         /\ expenseGroups' = folded
         /\ loading' = FALSE
         /\ ev' = [Ev("expensePageLoaded") EXCEPT
                     !.nextCalls = 1,
                     !.loadingAtNext = loading,
                     !.foldedAtNext = (expenseGroups = folded),
                     !.groupByDate = req.groupByDate,
                     !.state = req.state,
                     !.added = IF Traced THEN Len(content) ELSE 0,
                     !.twice = Twice(req, content, last)]
         /\ once' = OnceAfterPage(req, content, last, folded)
         /\ held' = HeldAfterPage(req)
         /\ inflight' = [Overtaken(inflight, req, searchCriteria.page)
                           EXCEPT ![i] = NoReq]
  /\ run' = RunAfterPage(content)
  /\ lastExpenseLast' = IF Kept THEN last ELSE lastExpenseLast
  /\ UNCHANGED <<callers, date, searchCriteria, categories, otherComponents>>

\* faulty variant: loading is lowered only when the fetch succeeds
ExpenseFetchFailedKeepsLoading(i) ==
  /\ inflight[i].kind = "expenses"
  /\ UNCHANGED loading
  /\ ev' = [Ev("expenseFetchFailed") EXCEPT
              !.sameAsBefore = (Kept => /\ expenseGroups = inflight[i].before.groups
                                        /\ lastPageReached = inflight[i].before.last)]
  /\ run' = InvalidRun
  /\ once' = NoOnce
  /\ inflight' = [inflight EXCEPT ![i] = NoReq]
  /\ UNCHANGED <<callers, date, expenseGroups, lastPageReached, searchCriteria,
                 categories, lastExpenseLast, held, otherComponents>>

\* getExpenses fails: the project never runs, so next() is not called;
\* subscribe.error (line 103), then finalize (line 78)
ExpenseFetchFailed(i) ==
  /\ inflight[i].kind = "expenses"
  /\ loading' = FALSE
  /\ ev' = [Ev("expenseFetchFailed") EXCEPT
              !.sameAsBefore = (Kept => /\ expenseGroups = inflight[i].before.groups
                                        /\ lastPageReached = inflight[i].before.last)]
  /\ run' = InvalidRun
  /\ once' = NoOnce
  /\ inflight' = [inflight EXCEPT ![i] = NoReq]
  /\ UNCHANGED <<callers, date, expenseGroups, lastPageReached, searchCriteria,
                 categories, lastExpenseLast, held, otherComponents>>

\* getCategories emits a page: subscribe.next (lines 131-135), then finalize
\* (lines 125-128), which clears loading and calls next()
CategoryPageLoaded(i, content, last) ==
  /\ inflight[i].kind = "categories"
  /\ LET start == IF searchCriteria.page = 0 THEN <<>> ELSE categories
     IN  /\ Len(start \o content) <= MaxCategories
         /\ categories' = start \o content
  /\ lastPageReached' = last
  /\ loading' = FALSE
  /\ ev' = [Ev("categoryPageLoaded") EXCEPT !.nextCalls = 1]
  /\ once' = NoOnce
  /\ inflight' = [inflight EXCEPT ![i] = NoReq]
  /\ UNCHANGED <<callers, date, expenseGroups, searchCriteria, lastExpenseLast,
                 run, held, otherComponents>>

\* getCategories fails: subscribe.error (line 136), then finalize
CategoryFetchFailed(i) ==
  /\ inflight[i].kind = "categories"
  /\ loading' = FALSE
  /\ ev' = [Ev("categoryFetchFailed") EXCEPT !.nextCalls = 1]
  /\ once' = NoOnce
  /\ inflight' = [inflight EXCEPT ![i] = NoReq]
  /\ UNCHANGED <<callers, date, expenseGroups, lastPageReached, searchCriteria,
                 categories, lastExpenseLast, run, held, otherComponents>>

Next ==
  \/ ionViewDidEnter
  \/ reloadExpenses
  \/ loadNextExpensePage
  \/ \E value \in [sort : sortOptions] : searchFormChange(value)
  \/ \E number \in {-1, 1} : addMonths(number)
  \/ \E role \in {"refresh", "cancel"} : openModal(role)
  \/ \E i \in Slots, content \in PageContents, last \in BOOLEAN :
       ExpensePageLoaded(i, content, last)
  \/ \E i \in Slots : ExpenseFetchFailed(i)
  \/ \E i \in Slots, content \in CategoryContents, last \in BOOLEAN :
       CategoryPageLoaded(i, content, last)
  \/ \E i \in Slots : CategoryFetchFailed(i)

\* any interleaving of the handlers
Spec == Init /\ [][Next]_vars

\* the same handlers with callers that keep the preconditions of the spec
SpecSerialized == InitWith("serialized") /\ [][Next]_vars

\* any interleaving of the handlers with a paged source, and the histories of
\* overlapping loads
SpecOverlapping == InitWith("overlapping") /\ [][Next]_vars

\* serialized callers and a paged source
SpecPaged == InitWith("paged") /\ [][Next]_vars

\* reloadExpenses and loadNextExpensePage, and the answers to their fetches
NextPaging ==
  \/ reloadExpenses
  \/ loadNextExpensePage
  \/ \E i \in Slots, content \in PageContents, last \in BOOLEAN :
       ExpensePageLoaded(i, content, last)
  \/ \E i \in Slots : ExpenseFetchFailed(i)

\* serialized calls of reloadExpenses and loadNextExpensePage only
SpecPaging == InitWith("paging") /\ [][NextPaging]_vars

\* the handlers of ExpenseModalComponent
SpecModal == Init /\ [][NextModal]_vars

\* the handlers of CategoryListComponent
SpecCategoryList == Init /\ [][NextCategoryList]_vars

----------------------------------------------------------------------------
(* Claims *)

UniqueDates(groups) ==
  \A i, j \in DOMAIN groups : groups[i].date = groups[j].date => i = j

AllSingletons(groups) ==
  \A i \in DOMAIN groups : Len(groups[i].expenses) = 1

SortedByName(expenses) ==
  \A i, j \in DOMAIN expenses :
    i < j => localeCompare(expenses[i].name, expenses[j].name) <= 0

ExpenseLoadEnded == ev.op \in {"expensePageLoaded", "expenseFetchFailed"}

\* C1: every load of expenses, also one whose fetch fails, has called its
\* completion callback `next` exactly once by the time the response is handled.
C1_NextCalledOnceAlsoOnFailure ==
  ExpenseLoadEnded => ev.nextCalls = 1

\* C2: once the failure of an expense fetch has been handled, expenseGroups and
\* lastPageReached have the values they had when loadExpenses was invoked.
C2_FailureLeavesStateAsBeforeLoad ==
  ev.op = "expenseFetchFailed" => ev.sameAsBefore

\* C3 (as claimed): with serialized loads, after a successful page load under a
\* sort that starts with "date" expenseGroups has at most one group per date.
C3_OneGroupPerDateAfterDateLoad ==
  (ev.op = "expensePageLoaded" /\ ev.groupByDate) => UniqueDates(expenseGroups)

\* C3 (amended): a successful page load under a sort that starts with "date"
\* adds no second group for a date: when the groups the page is folded into
\* (none on page index 0 or after null, else the groups held before) have at
\* most one group per date, so has expenseGroups afterwards.
C3_DateLoadAddsNoSecondGroup ==
  [][(/\ ev'.op = "expensePageLoaded"
      /\ ev'.groupByDate
      /\ UniqueDates(StartGroups(expenseGroups, searchCriteria.page)))
     => UniqueDates(expenseGroups')]_vars

\* C3 witness: a later page under a date sort was merged into the group of
\* its date, next to a group of another date.
C3_Witness ==
  /\ ev.op = "expensePageLoaded"
  /\ ev.groupByDate
  /\ ~ev.foldedAtNext
  /\ searchCriteria.page > 0
  /\ expenseGroups = <<[date |-> Eggs.date, expenses |-> <<Eggs>>],
                       [date |-> Milk.date, expenses |-> <<Bread, Milk>>]>>

\* C4: in every reachable state the expenses of every group are in ascending
\* order of name.
C4_GroupsSortedByName ==
  expenseGroups # NULL =>
    \A i \in DOMAIN expenseGroups : SortedByName(expenseGroups[i].expenses)

\* C4 witness: a group that took records of more than one page.
C4_Witness ==
  /\ expenseGroups # NULL
  /\ \E i \in DOMAIN expenseGroups : Len(expenseGroups[i].expenses) > MaxPageLen

\* C5: after a reset of the page index to 0 followed by calls of
\* loadNextExpensePage, all serialized and all fetches successful, expenseGroups
\* holds exactly the records of the pages served since the reset, each as often
\* as it was served.
C5_GroupsHoldPagesSinceReset ==
  (run.valid /\ ~ExpenseInFlight(inflight)) =>
    /\ expenseGroups # NULL
    /\ \A e \in Expenses : CountInGroups(expenseGroups, e) = run.served[e]

\* C5 witness: three pages after a reset, with records in the groups.
C5_Witness ==
  /\ run.valid
  /\ run.pages = MaxPage + 1
  /\ ~ExpenseInFlight(inflight)
  /\ expenseGroups # NULL
  /\ SumLen(expenseGroups) = MaxRecords

\* C6 (as claimed): with serialized loads, after a successful page load under a
\* sort that does not start with "date" every group holds exactly one expense.
C6_SingletonsAfterNonDateLoad ==
  (ev.op = "expensePageLoaded" /\ ~ev.groupByDate) => AllSingletons(expenseGroups)

\* C6 (amended): a successful page load under a sort that does not start with
\* "date" adds one group per record and leaves the other groups as they are:
\* when the groups the page is folded into hold one expense each, so do all
\* groups afterwards.
C6_NonDateLoadAddsSingletons ==
  [][(/\ ev'.op = "expensePageLoaded"
      /\ ~ev'.groupByDate
      /\ AllSingletons(StartGroups(expenseGroups, searchCriteria.page)))
     => AllSingletons(expenseGroups')]_vars

\* C6 witness: two records of the same date, each in a group of its own.
C6_Witness ==
  /\ ev.op = "expensePageLoaded"
  /\ ~ev.groupByDate
  /\ expenseGroups = <<[date |-> Milk.date, expenses |-> <<Milk>>],
                       [date |-> Bread.date, expenses |-> <<Bread>>]>>

\* C7: whenever no fetch is in flight, lastPageReached is the `last` flag of
\* the latest successful expense page response (false before the first).
C7_LastPageReachedIsLastOfExpensePage ==
  NoneInFlight(inflight) => lastPageReached = lastExpenseLast

\* C8 (as claimed): reloadExpenses, also when called by addMonths, leaves the
\* page index 0 and lastPageReached false while its fetch is in flight.
C8_ReloadClearsLastPageReached ==
  ev.op \in {"reloadExpenses", "addMonths"} =>
    (searchCriteria.page = 0 /\ lastPageReached = FALSE)

\* C8 (amended): reloadExpenses, also when called by addMonths, sets the page
\* index to 0 and issues the fetch with loading raised, and leaves
\* lastPageReached as it was.
C8_ReloadResetsPageAndKeepsLast ==
  [][ev'.op \in {"reloadExpenses", "addMonths"} =>
       /\ searchCriteria'.page = 0
       /\ loading'
       /\ ExpenseInFlight(inflight')
       /\ lastPageReached' = lastPageReached]_vars

\* C8 witness: a reload from a later page of a result set that had reached
\* its last page.
C8_Witness ==
  /\ ev.op = "reloadExpenses"
  /\ lastPageReached
  /\ searchCriteria.page = 0
  /\ expenseGroups # NULL
  /\ Len(expenseGroups) > 0

\* C9: when the callback of a successful load runs, loading is already false
\* and the page has already been folded into expenseGroups.
C9_NextRunsLast ==
  ev.op = "expensePageLoaded" => (~ev.loadingAtNext /\ ev.foldedAtNext)

\* C10 (as claimed): no call of loadNextExpensePage takes effect while
\* lastPageReached is true.
C10_NoAdvanceWhenLastPageReached ==
  ev.op = "loadNextExpensePage" => ~lastPageReached

\* C10 (amended): loadNextExpensePage has no guard of its own: also when
\* lastPageReached is true it adds one to the page index and issues a fetch;
\* not calling it then is left to the caller.
C10_AdvanceIsUnguarded ==
  [][(ev'.op = "loadNextExpensePage" /\ lastPageReached) =>
       /\ searchCriteria'.page = searchCriteria.page + 1
       /\ loading'
       /\ Cardinality(Free(inflight')) = Cardinality(Free(inflight)) - 1
       /\ lastPageReached']_vars

\* C10 witness: loadNextExpensePage was called with lastPageReached true.
C10_Witness ==
  /\ ev.op = "loadNextExpensePage"
  /\ lastPageReached
  /\ searchCriteria.page > 0

\* a step in which an expense fetch carrying page index 0 is issued
IssuesFirstPageFetch ==
  \E i \in Slots : /\ inflight[i].kind = "none"
                   /\ inflight'[i].kind = "expenses"
                   /\ inflight'[i].page = 0

\* C11: whenever a filter or sort value changes (through the search form, or
\* the period through addMonths), the page index is reset to 0 and the fetch
\* issued with the changed criteria carries page index 0, whatever the page
\* index was before and whatever loads are in flight.
C11_CriteriaChangeFetchesFirstPage ==
  [][(\/ ev'.op \in {"searchFormChange", "addMonths"}
      \/ searchCriteria'.sort # searchCriteria.sort
      \/ date' # date)
     => (searchCriteria'.page = 0 /\ IssuesFirstPageFetch)]_vars

\* C11 witness: the sort was changed while the fetch of a later page was in
\* flight; the new fetch carries page index 0.
C11_Witness ==
  /\ ev.op = "searchFormChange"
  /\ searchCriteria.sort = "name,asc"
  /\ searchCriteria.page = 0
  /\ \E i, j \in Slots : /\ inflight[i].kind = "expenses"
                         /\ inflight[i].page > 0
                         /\ inflight[i].groupByDate
                         /\ inflight[j].kind = "expenses"
                         /\ inflight[j].page = 0
                         /\ ~inflight[j].groupByDate

\* C12: loading the same first page twice (page index 0, the same response
\* both times), the second load started after the first has completed or
\* while it is in flight, leaves expenseGroups and lastPageReached as loading
\* it once left them.
C12_FirstPageTwiceIsOnce ==
  (ev.op = "expensePageLoaded" /\ ev.twice) =>
    (expenseGroups = once.groups /\ lastPageReached = once.last)

\* C12 witness: the response of the first of two overlapping first-page loads
\* arrived after that of the second.
C12_Witness ==
  /\ ev.op = "expensePageLoaded"
  /\ ev.twice
  /\ ev.state = "overtaken"
  /\ once.content # <<>>
  /\ expenseGroups = once.groups

\* C13: every load raises loading when it starts, and every answer to a
\* fetch, success and failure alike, lowers it: once no fetch of the component
\* is in flight loading is false.  (With every fetch answered in the end,
\* loading that is true is therefore lowered again.)
C13_LoadingFallsWhenFetchesEnd ==
  /\ [][Cardinality(Free(inflight')) < Cardinality(Free(inflight)) => loading']_vars
  /\ [][Cardinality(Free(inflight')) > Cardinality(Free(inflight)) => ~loading']_vars
  /\ [](NoneInFlight(inflight) => ~loading)

\* C13 witness: the only fetch in flight has failed and loading is false, with
\* the groups of an earlier load still held.
C13_Witness ==
  /\ ev.op = "expenseFetchFailed"
  /\ NoneInFlight(inflight)
  /\ ~loading
  /\ expenseGroups # NULL
  /\ Len(expenseGroups) > 0

\* C14: there is no cancellation.  The response of a fetch that was still in
\* flight when a load of page index 0 was issued after it is folded into the
\* state like any other: expenseGroups grows by its records, on top of the
\* groups held if the page index is not 0 by then.  (The witness is the state
\* the claim says is reachable.)
C14_SupersededResponseIsFolded ==
  [][(ev'.op = "expensePageLoaded" /\ ev'.state # "current") =>
       SumLen(expenseGroups') =
         SumLen(StartGroups(expenseGroups, searchCriteria.page)) + ev'.added]_vars

\* C14 witness: the response of a fetch issued before the reset arrived after
\* the first page of the new result set and after loadNextExpensePage; its
\* record was appended to the groups of the new result set.
C14_Witness ==
  /\ ev.op = "expensePageLoaded"
  /\ ev.state = "overtaken"
  /\ ev.added > 0
  /\ searchCriteria.page > 0
  /\ expenseGroups # NULL
  /\ SumLen(expenseGroups) > ev.added

\* C15: in every reachable state loading is true whenever a fetch issued by
\* the component is still in flight.
C15_LoadingWhileFetchInFlight ==
  ~NoneInFlight(inflight) => loading

\* C16: after any sequence of serialized operations, with a source that
\* returns each record on exactly one page, no expense identifier occurs more
\* than once across the groups of expenseGroups.
C16_NoExpenseTwice ==
  expenseGroups # NULL =>
    \A e \in Expenses : CountInGroups(expenseGroups, e) <= 1

\* C17: after any serialized sequence of reloadExpenses and
\* loadNextExpensePage in which fetches may fail, whenever no load is in
\* flight and expenseGroups is not empty, the pages whose records are held in
\* expenseGroups are exactly the pages 0..searchCriteria.page (stated for the
\* groups that hold the first page, as they do after an initial load).
C17_HeldPagesAreZeroToPage ==
  (/\ NoneInFlight(inflight)
   /\ expenseGroups # NULL
   /\ expenseGroups # <<>>
   /\ 0 \in held)
  => held = 0..searchCriteria.page

\* C18: submitting is true only while an upsert started by save() is in
\* flight: in the open modal it is false before the first save and false again
\* once the request has failed.
C18_SubmittingOnlyWhileUpsertInFlight ==
  (Presented /\ modal.submitting) => Len(modalFetches.upserts) > 0

\* a step in which a fetch of the category list is answered
CategoryFetchAnswered ==
  Cardinality(Free(categoryFetches')) > Cardinality(Free(categoryFetches))

\* C19: every load of the category list invokes its completion callback
\* exactly once, whether the fetch succeeds or fails, after loading has been
\* set to false and, on success, after the page has been appended to
\* categories; on failure categories and lastPageReached are unchanged.
C19_CategoryCallbackRunsOnceAndLast ==
  [][CategoryFetchAnswered =>
       /\ categoryEv'.op \in {"categoriesLoaded", "categoriesFailed"}
       /\ categoryEv'.nextCalls = 1
       /\ ~categoryEv'.loadingAtNext
       /\ ~categoryList'.loading
       /\ categoryEv'.op = "categoriesLoaded" => categoryEv'.appendedAtNext
       /\ categoryEv'.op = "categoriesFailed" =>
            /\ categoryList'.categories = categoryList.categories
            /\ categoryList'.lastPageReached = categoryList.lastPageReached]_vars

\* C19 witness: a later page of categories was appended and the callback of
\* loadNextCategoryPage found it there.
C19_Witness ==
  /\ categoryEv.op = "categoriesLoaded"
  /\ categoryEv.nextCalls = 1
  /\ categoryEv.appendedAtNext
  /\ categoryList.searchCriteria.page > 0
  /\ categoryList.categories = <<Food, Rent>>
  /\ ~categoryList.loading

====
